---- MODULE Spec2Model ----
(***************************************************************************)
(* Model of the user-feedback bridge: the getUserFeedback request handler  *)
(* of the MCP server, its Electron launcher, the shared file handshake and *)
(* the Electron GUI main process that writes the handshake file.           *)
(*                                                                         *)
(* Two revisions of the handler and of the GUI are in the repository; the  *)
(* variable `variant` selects the pair that runs:                          *)
(*   "timeout"   handler with a host-side timer and forced kill, GUI with  *)
(*               an auto-close timer and no close handler;                 *)
(*   "notimeout" handler without a timer, GUI whose close handler writes a *)
(*               cancelled record.                                         *)
(***************************************************************************)
EXTENDS Integers, Sequences, FiniteSets, TLC

\* ---------------------------------------------------------------- bounds
NumReqs == 2
MaxClock == 1
MaxImages == 2
MaxInstances == 4

Reqs == 1..NumReqs
Times == 0..MaxClock
Prompts == {"", "p"}
Feedbacks == {"a", "b"}
Variants == {"timeout", "notimeout"}
NoPath == -1

\* pasted images as the renderer holds them: base64 data and a MIME type
Images == {[data |-> "iVBOR", mimeType |-> "image/png"],
           [data |-> "/9j/4", mimeType |-> "image/jpeg"]}
ImageLists == UNION {[1..n -> Images] : n \in 0..MaxImages}

\* shared/constants: the default wait for user feedback, in milliseconds
DEFAULT_TIMEOUT == 5 * 60 * 1000
\* params.timeout of a request; 0 stands for an absent (or zero) timeout
Timeouts == {0, 2000}
\* start --timeout <ms>; NoCliTimeout when the option is not given
CliTimeouts == {1000}
NoCliTimeout == -1

VARIABLES
  variant,   \* which revision pair is running
  now,       \* Date.now(), in milliseconds
  tempDir,   \* TEMP_DIR exists
  guiFound,  \* electron/main.js exists where getElectronGuiPath looks
  files,     \* content of the file at each handshake path
  pc,        \* position of each getUserFeedback call
  prompt,    \* params.prompt of each call
  path,      \* feedbackFilePath of each call
  launch,    \* what the launchElectronGui promise settled to
  timer,     \* the launcher's timeoutId
  proc,      \* the spawned Electron process as the host sees it
  exitCode,  \* exit code of the process
  killed,    \* electronProcess.killed
  gui,       \* mainWindow of the GUI process
  sw,        \* the submit handler's writeFeedbackToFile call
  cw,        \* the close handler's writeFeedbackToFile call
  resp,      \* the response determined by the handler
  reads,     \* number of readFeedbackFromFile calls of each request
  lastRead,  \* the file content the request's read found
  firedOn,   \* state of the process when the launcher's timer fired
  wrote,     \* what the request's own subprocess has left at its path
  writes,    \* the records the request's subprocess has written, in order
  pasted,    \* the images the renderer passed to submitFeedback
  envTimeout,\* process.env.DEFAULT_TIMEOUT as the CLI start command set it
  ptimeout,  \* params.timeout of each call
  deadline,  \* the delay launchElectronGui gave to setTimeout
  rt,        \* a write/read/tool-result trip through shared/file-utils
  cleaned,   \* the outcomes of each call's cleanupFeedbackFile attempts
  envGui,    \* USER_FEEDBACK_TIMEOUT as each subprocess receives it
  stdio,     \* stdoutData/stderrData the launcher has captured
  srv        \* mcp-server/index: isServerRunning, serverInstance, instances

progVars == <<variant, guiFound, now, tempDir, files, pc, prompt, path, launch, timer,
              proc, exitCode, killed, gui, sw, cw, resp, reads, lastRead,
              firedOn, wrote, writes, pasted, envTimeout, ptimeout, deadline,
              cleaned, envGui, stdio>>

vars == <<progVars, rt, srv>>

hostVars == <<pc, prompt, path, launch, timer, resp, reads, lastRead, firedOn,
              ptimeout, deadline, cleaned, envGui>>
guiVars == <<gui, sw, cw, wrote, writes, pasted>>

\* ------------------------------------------------------- file contents
NoFile == [kind |-> "none"]
Truncated == [kind |-> "partial"]
IsJson(c) == c.kind = "json"

\* ------------------------------------------------------ shared/file-utils
\* generateFeedbackFilePath: TEMP_DIR/<Date.now()>-feedback.json
generateFeedbackFilePath(t) == t

\* the FeedbackFile object writeFeedbackToFile serialises
FeedbackFile(feedback, cancelled, images, t) ==
  LET data == [kind |-> "json", feedback |-> feedback, timestamp |-> t,
               cancelled |-> cancelled]
  IN  IF Len(images) > 0 THEN data @@ [images |-> images] ELSE data

\* JSON.stringify of one image: its members in the order of the literal
JsonOfImage(img) == <<<<"data", img.data>>, <<"mimeType", img.mimeType>>>>

\* fs.writeJson: the members of the object in insertion order
JsonStringify(data) ==
  <<<<"feedback", data.feedback>>, <<"timestamp", data.timestamp>>,
    <<"cancelled", data.cancelled>>>>
  \o (IF "images" \in DOMAIN data
        THEN <<<<"images", [i \in DOMAIN data.images |-> JsonOfImage(data.images[i])]>>>>
        ELSE <<>>)

\* the value of member name in a parsed text (the last one wins)
Member(text, name) ==
  text[CHOOSE i \in DOMAIN text :
         /\ text[i][1] = name
         /\ \A j \in DOMAIN text : text[j][1] = name => j <= i][2]

MemberNames(text) == {text[i][1] : i \in DOMAIN text}

\* fs.readJson: JSON.parse of the text back into an object
JsonParse(text) ==
  [kind |-> "json"] @@
  [name \in MemberNames(text) |->
     IF name = "images"
       THEN [i \in DOMAIN Member(text, name) |->
               [n \in MemberNames(Member(text, name)[i]) |->
                  Member(Member(text, name)[i], n)]]
       ELSE Member(text, name)]

\* writeFeedbackToFile: the text fs.writeJson leaves in the file
writeFeedbackToFile(feedback, cancelled, images, t) ==
  [kind |-> "text", text |-> JsonStringify(FeedbackFile(feedback, cancelled, images, t))]

\* what fs.readJson makes of a file
readJson(file) == IF file.kind = "text" THEN JsonParse(file.text) ELSE file

\* a read that never honours the cancelled flag
NeverCancelled(data) == FALSE

\* data.cancelled, truthy
IsCancelled(data) == "cancelled" \in DOMAIN data /\ data.cancelled

\* a read that passes images on only when there are several
HasSeveralImages(data) == "images" \in DOMAIN data /\ Len(data.images) > 1

\* data.images && data.images.length > 0
HasImages(data) == "images" \in DOMAIN data /\ Len(data.images) > 0

\* readFeedbackFromFile on the content found at the path
readFeedbackFromFile(c) ==
  IF ~IsJson(c)
    THEN [feedback |-> "", status |-> "error",
          error |-> <<"Failed to read feedback file: ", c.kind>>]
  ELSE IF IsCancelled(c)
    THEN [feedback |-> "", status |-> "cancelled",
          error |-> <<"User cancelled feedback by closing the window">>]
  ELSE IF HasImages(c)
    THEN [feedback |-> c.feedback, status |-> "success", images |-> c.images]
  ELSE [feedback |-> c.feedback, status |-> "success"]

\* ----------------------------------------------------- shared/error-utils
createErrorResponse(message, status) ==
  [feedback |-> "", status |-> status, error |-> message]

\* a timeout response built without its error text
createTimeoutResponseBare == [feedback |-> "", status |-> "timeout"]

createTimeoutResponse ==
  [feedback |-> "", status |-> "timeout",
   error |-> <<"Operation timed out waiting for user feedback">>]

\* ------------------------------------------------------------- handler
\* validation that lets every prompt through
PromptNeverMissing(p) == FALSE

\* !params.prompt
PromptMissing(p) == p = ""

NoResp == [status |-> "none"]
Pending == [status |-> "pending"]

\* an exit handler that does not look at the code
ExitResultIgnoresCode(code) == [status |-> "success"]

\* what the exit handler resolves the launcher promise with
ExitResult(code) ==
  IF code = "0"
    THEN [status |-> "success"]
    ELSE [status |-> "error",
          error |-> <<"Electron process exited with code ", code>>]

\* what the error handler resolves the launcher promise with
ErrorResult ==
  [status |-> "error", error |-> <<"Failed to start Electron process: ", "spawn">>]

\* mcp-server/index as loaded: not running, no instance created
ServerOff ==
  [isServerRunning |-> FALSE, serverInstance |-> 0, created |-> 0,
   link |-> [i \in 1..MaxInstances |-> "none"], exited |-> FALSE]

\* no trip through file-utils under way
NoTrip == [pc |-> "off"]

\* the state after the server has started: cli is the set of values
\* process.env.DEFAULT_TIMEOUT may have, trips the file-utils trips to make
Started(cli, trips) ==
  /\ envTimeout \in cli
  /\ rt \in trips
  /\ variant \in Variants
  /\ guiFound \in BOOLEAN
  /\ now = 0
  /\ tempDir = FALSE
  /\ files = [p \in Times |-> NoFile]
  /\ pc = [r \in Reqs |-> "idle"]
  /\ prompt = [r \in Reqs |-> ""]
  /\ path = [r \in Reqs |-> NoPath]
  /\ launch = [r \in Reqs |-> Pending]
  /\ timer = [r \in Reqs |-> "none"]
  /\ proc = [r \in Reqs |-> "none"]
  /\ exitCode = [r \in Reqs |-> "none"]
  /\ killed = [r \in Reqs |-> FALSE]
  /\ gui = [r \in Reqs |-> "none"]
  /\ sw = [r \in Reqs |-> [stage |-> "none"]]
  /\ cw = [r \in Reqs |-> [stage |-> "none"]]
  /\ resp = [r \in Reqs |-> NoResp]
  /\ reads = [r \in Reqs |-> 0]
  /\ lastRead = [r \in Reqs |-> NoFile]
  /\ firedOn = [r \in Reqs |-> "none"]
  /\ wrote = [r \in Reqs |-> NoFile]
  /\ writes = [r \in Reqs |-> <<>>]
  /\ pasted = [r \in Reqs |-> <<>>]
  /\ ptimeout = [r \in Reqs |-> 0]
  /\ deadline = [r \in Reqs |-> 0]
  /\ cleaned = [r \in Reqs |-> <<>>]
  /\ envGui = [r \in Reqs |-> <<>>]
  /\ stdio = [r \in Reqs |-> ""]
  /\ srv = ServerOff

\* the server started without --timeout
Init == Started({NoCliTimeout}, {NoTrip})

\* Date.now() advances
Tick ==
  /\ now < MaxClock
  /\ now' = now + 1
  /\ UNCHANGED <<srv, stdio, rt, envTimeout, variant, guiFound, tempDir, files, proc, exitCode, killed>>
  /\ UNCHANGED hostVars
  /\ UNCHANGED guiVars

\* getUserFeedback is called: validation, then the await of ensureTempDir
GetUserFeedback(r, p, t) ==
  /\ pc[r] = "idle"
  /\ t # 0 => variant = "timeout"
  /\ prompt' = [prompt EXCEPT ![r] = p]
  /\ ptimeout' = [ptimeout EXCEPT ![r] = t]
  /\ UNCHANGED <<deadline, cleaned, envGui>>
  /\ IF PromptMissing(p)
       THEN /\ resp' = [resp EXCEPT ![r] =
                          createErrorResponse(<<"Prompt is required">>, "error")]
            /\ pc' = [pc EXCEPT ![r] = "done"]
       ELSE /\ pc' = [pc EXCEPT ![r] = "ensure"]
            /\ UNCHANGED resp
  /\ UNCHANGED <<srv, stdio, rt, envTimeout, variant, guiFound, now, tempDir, files, path, launch, timer, proc,
                 exitCode, killed, reads, lastRead, firedOn>>
  /\ UNCHANGED guiVars

\* fs.ensureDir(TEMP_DIR) rejects: the await is outside the try block, so
\* the promise returned by getUserFeedback rejects
EnsureTempDirFails(r) ==
  /\ UNCHANGED <<ptimeout, deadline, cleaned, envGui>>
  /\ pc[r] = "ensure"
  /\ ~tempDir
  /\ pc' = [pc EXCEPT ![r] = "rejected"]
  /\ UNCHANGED <<srv, stdio, rt, envTimeout, variant, guiFound, now, tempDir, files, prompt, path, launch, timer,
                 proc, exitCode, killed, resp, reads, lastRead, firedOn>>
  /\ UNCHANGED guiVars

\* a getElectronGuiPath that returns a path whether or not the file exists
GuiPathNeverThrows == FALSE

\* getElectronGuiPath throws: neither the bundled nor the resolved path exists
GuiPathThrows == ~guiFound

\* String(n): the decimal digits of a non-negative integer
RECURSIVE String(_)
String(n) == IF n < 10 THEN <<n>> ELSE Append(String(n \div 10), n % 10)

\* parseInt(s, 10) of a digit string
RECURSIVE parseInt(_)
parseInt(s) ==
  IF Len(s) = 0 THEN 0 ELSE 10 * parseInt(SubSeq(s, 1, Len(s) - 1)) + s[Len(s)]

\* the GUI's timeout: parseInt(process.env[ENV_TIMEOUT] || "0", 10)
GuiTimeout(r) == parseInt(envGui[r])

\* a launcher that sets its timer in both revisions
LaunchTimerAlways == "armed"

\* the launcher's setTimeout: only the timeout revision has one
LaunchTimer == IF variant = "timeout" THEN "armed" ELSE "none"

\* a handler that passes params.timeout on without a default
LaunchTimeoutAsGiven(t) == t

\* params.timeout || DEFAULT_TIMEOUT
LaunchTimeout(t) == IF t # 0 THEN t ELSE DEFAULT_TIMEOUT

\* fs.ensureDir(TEMP_DIR) resolves; the handler runs on synchronously:
\* generateFeedbackFilePath, getElectronGuiPath, the env, and the executor
\* of launchElectronGui (setTimeout in the timeout revision, spawn)
EnsureTempDirDone(r, spawnOk) ==
  /\ pc[r] = "ensure"
  /\ tempDir' = TRUE
  /\ path' = [path EXCEPT ![r] = generateFeedbackFilePath(now)]
  /\ IF GuiPathThrows
       THEN \* catch, then finally
            /\ resp' = [resp EXCEPT ![r] =
                 createErrorResponse(<<"Failed to resolve Electron GUI path: ",
                                       "Could not find Electron GUI path">>, "error")]
            /\ pc' = [pc EXCEPT ![r] = "cleanup"]
            /\ UNCHANGED <<timer, proc, gui, deadline, envGui>>
       ELSE /\ timer' = [timer EXCEPT ![r] =
                           LaunchTimer]
            /\ deadline' = [deadline EXCEPT ![r] =
                              IF variant = "timeout"
                                THEN LaunchTimeout(ptimeout[r]) ELSE @]
            /\ envGui' = [envGui EXCEPT ![r] =
                            IF variant = "timeout"
                              THEN String(LaunchTimeout(ptimeout[r])) ELSE @]
            /\ proc' = [proc EXCEPT ![r] = IF spawnOk THEN "running" ELSE "spawnerr"]
            /\ gui' = [gui EXCEPT ![r] = IF spawnOk THEN "open" ELSE "none"]
            /\ pc' = [pc EXCEPT ![r] = "launching"]
            /\ UNCHANGED resp
  /\ UNCHANGED <<srv, stdio, rt, envTimeout, variant, guiFound, now, files, prompt, launch,
                 exitCode, killed, sw, cw, wrote, reads, lastRead, firedOn,
                 writes, pasted, ptimeout, cleaned>>

\* the handler's continuation once the launcher promise has settled
AfterLaunch(result) ==
  IF variant = "timeout" /\ result.status = "timeout"
    THEN [pc |-> "cleanup", resp |-> createTimeoutResponse]
  ELSE IF result.status = "error"
    THEN [pc |-> "cleanup", resp |-> createErrorResponse(result.error, result.status)]
  ELSE [pc |-> "reading", resp |-> NoResp]

\* a promise that every resolve call settles anew
ResolveEveryTime(r, result) ==
  /\ launch' = [launch EXCEPT ![r] = result]
  /\ pc' = [pc EXCEPT ![r] = AfterLaunch(result).pc]
  /\ resp' = [resp EXCEPT ![r] = AfterLaunch(result).resp]

\* resolve(result): only the first call settles the promise
Resolve(r, result) ==
  IF launch[r] = Pending
    THEN /\ launch' = [launch EXCEPT ![r] = result]
         /\ pc' = [pc EXCEPT ![r] = AfterLaunch(result).pc]
         /\ resp' = [resp EXCEPT ![r] = AfterLaunch(result).resp]
    ELSE UNCHANGED <<launch, pc, resp>>

\* exit and error handlers that leave the timer armed
ClearTimeoutForgotten(r) == UNCHANGED timer

\* clearTimeout(timeoutId); the revision without a timer has none
ClearTimeout(r) ==
  timer' = [timer EXCEPT ![r] = IF @ = "armed" THEN "cleared" ELSE @]

\* exit and error handlers that take captured output for a failure
WithDetailsFailingOnOutput(r, result) ==
  IF stdio[r] # ""
    THEN [status |-> "error", error |-> <<"Electron process wrote: ", stdio[r]>>]
    ELSE result

\* the revision without a timer appends errorDetails, with the captured
\* stdout and stderr, to the message of an error result
WithDetails(r, result) ==
  IF variant = "notimeout" /\ result.status = "error"
    THEN [result EXCEPT !.error = @ \o <<". Details: ", stdio[r]>>]
    ELSE result

\* electronProcess.on("exit", ...)
OnExit(r) ==
  /\ UNCHANGED <<ptimeout, deadline, cleaned, envGui>>
  /\ proc[r] = "exited"
  /\ proc' = [proc EXCEPT ![r] = "gone"]
  /\ ClearTimeout(r)
  /\ Resolve(r, WithDetails(r, ExitResult(exitCode[r])))
  /\ UNCHANGED <<srv, stdio, rt, envTimeout, variant, guiFound, now, tempDir, files, prompt, path, exitCode, killed,
                 reads, lastRead, firedOn>>
  /\ UNCHANGED guiVars

\* electronProcess.on("error", ...)
OnError(r) ==
  /\ UNCHANGED <<ptimeout, deadline, cleaned, envGui>>
  /\ proc[r] = "spawnerr"
  /\ proc' = [proc EXCEPT ![r] = "gone"]
  /\ ClearTimeout(r)
  /\ Resolve(r, WithDetails(r, ErrorResult))
  /\ UNCHANGED <<srv, stdio, rt, envTimeout, variant, guiFound, now, tempDir, files, prompt, path, exitCode, killed,
                 reads, lastRead, firedOn>>
  /\ UNCHANGED guiVars

\* a timeout callback that never kills
ShouldKillNever(r) == FALSE

\* electronProcess && !electronProcess.killed
ShouldKill(r) == ~killed[r]

\* the setTimeout callback of the launcher (timeout revision)
OnTimeout(r) ==
  /\ UNCHANGED <<ptimeout, deadline, cleaned, envGui>>
  /\ timer[r] = "armed"
  /\ timer' = [timer EXCEPT ![r] = "fired"]
  /\ firedOn' = [firedOn EXCEPT ![r] = proc[r]]
  /\ killed' = [killed EXCEPT ![r] =
                  IF ShouldKill(r) /\ proc[r] = "running" THEN TRUE ELSE @]
  /\ Resolve(r, [status |-> "timeout"])
  /\ UNCHANGED <<srv, stdio, rt, envTimeout, variant, guiFound, now, tempDir, files, prompt, path, proc, exitCode,
                 reads, lastRead>>
  /\ UNCHANGED guiVars

\* the await of readFeedbackFromFile(feedbackFilePath) completes
ReadFeedback(r) ==
  /\ UNCHANGED <<ptimeout, deadline, cleaned, envGui>>
  /\ pc[r] = "reading"
  /\ reads' = [reads EXCEPT ![r] = @ + 1]
  /\ lastRead' = [lastRead EXCEPT ![r] = files[path[r]]]
  /\ resp' = [resp EXCEPT ![r] = readFeedbackFromFile(files[path[r]])]
  /\ pc' = [pc EXCEPT ![r] = "cleanup"]
  /\ UNCHANGED <<srv, stdio, rt, envTimeout, variant, guiFound, now, tempDir, files, prompt, path, launch, timer,
                 proc, exitCode, killed, firedOn>>
  /\ UNCHANGED guiVars

\* finally: cleanupFeedbackFile(feedbackFilePath), fs.remove succeeds
cleanupFeedbackFile(r) ==
  /\ UNCHANGED <<ptimeout, deadline, envGui>>
  /\ pc[r] = "cleanup"
  /\ cleaned' = [cleaned EXCEPT ![r] = Append(@, "done")]
  /\ files' = [files EXCEPT ![path[r]] = NoFile]
  /\ pc' = [pc EXCEPT ![r] = "done"]
  /\ UNCHANGED <<srv, stdio, rt, envTimeout, variant, guiFound, now, tempDir, prompt, path, launch, timer, proc,
                 exitCode, killed, resp, reads, lastRead, firedOn>>
  /\ UNCHANGED guiVars

\* a cleanup whose fs.remove error escapes the finally block
CleanupFailsAndThrows(r) ==
  /\ pc[r] = "cleanup"
  /\ files[path[r]] # NoFile
  /\ cleaned' = [cleaned EXCEPT ![r] = Append(@, "failed")]
  /\ pc' = [pc EXCEPT ![r] = "rejected"]
  /\ UNCHANGED <<srv, stdio, rt, envTimeout, variant, guiFound, now, tempDir, files,
                 prompt, path, launch, timer, proc, exitCode, killed, resp, reads,
                 lastRead, firedOn, ptimeout, deadline, envGui>>
  /\ UNCHANGED guiVars

\* finally: fs.remove throws; the error is logged and swallowed
CleanupFails(r) ==
  /\ UNCHANGED <<ptimeout, deadline, envGui>>
  /\ cleaned' = [cleaned EXCEPT ![r] = Append(@, "failed")]
  /\ pc[r] = "cleanup"
  /\ files[path[r]] # NoFile
  /\ pc' = [pc EXCEPT ![r] = "done"]
  /\ UNCHANGED <<srv, stdio, rt, envTimeout, variant, guiFound, now, tempDir, files, prompt, path, launch, timer,
                 proc, exitCode, killed, resp, reads, lastRead, firedOn>>
  /\ UNCHANGED guiVars

\* -------------------------------------------------- Electron GUI process
\* mainWindow.close() or the user closing the window: the close handler of
\* the notimeout revision starts writeFeedbackToFile(path, "", true); the
\* window is then destroyed and window-all-closed calls app.quit()
CloseWindow(r) ==
  /\ gui' = [gui EXCEPT ![r] = "quitting"]
  /\ cw' = [cw EXCEPT ![r] =
              IF variant = "notimeout"
                THEN [stage |-> "pending",
                      data |-> FeedbackFile("", TRUE, <<>>, now)]
                ELSE @]

\* the renderer submits text and pasted images (it refuses to submit
\* nothing); the preload passes both over "submit-feedback", whose handler
\* takes the text only and starts writeFeedbackToFile(path, feedback)
SubmitFeedback(r, f, imgs) ==
  /\ proc[r] = "running"
  /\ gui[r] = "open"
  /\ f # "" \/ Len(imgs) > 0
  /\ pasted' = [pasted EXCEPT ![r] = imgs]
  /\ UNCHANGED writes
  /\ gui' = [gui EXCEPT ![r] = "submitting"]
  /\ sw' = [sw EXCEPT ![r] = [stage |-> "pending",
                              data |-> FeedbackFile(f, FALSE, <<>>, now)]]
  /\ UNCHANGED <<srv, stdio, rt, envTimeout, variant, guiFound, now, tempDir, files, proc, exitCode, killed, cw, wrote>>
  /\ UNCHANGED hostVars

\* fs.writeJson of the submit handler opens the file, truncating it
SubmitWriteOpen(r) ==
  /\ UNCHANGED <<writes, pasted>>
  /\ proc[r] = "running"
  /\ sw[r].stage = "pending"
  /\ sw' = [sw EXCEPT ![r].stage = "opened"]
  /\ files' = [files EXCEPT ![path[r]] = Truncated]
  /\ wrote' = [wrote EXCEPT ![r] = Truncated]
  /\ UNCHANGED <<srv, stdio, rt, envTimeout, variant, guiFound, now, tempDir, proc, exitCode, killed, gui, cw>>
  /\ UNCHANGED hostVars

\* the write completes; the submit handler goes on to close the window
SubmitWriteDone(r) ==
  /\ proc[r] = "running"
  /\ sw[r].stage = "opened"
  /\ sw' = [sw EXCEPT ![r].stage = "done"]
  /\ files' = [files EXCEPT ![path[r]] = sw[r].data]
  /\ wrote' = [wrote EXCEPT ![r] = sw[r].data]
  /\ writes' = [writes EXCEPT ![r] = Append(@, sw[r].data)]
  /\ UNCHANGED pasted
  /\ IF gui[r] = "submitting" THEN CloseWindow(r) ELSE UNCHANGED <<gui, cw>>
  /\ UNCHANGED <<srv, stdio, rt, envTimeout, variant, guiFound, now, tempDir, proc, exitCode, killed>>
  /\ UNCHANGED hostVars

\* a submit handler that closes the window also when the write threw
SubmitWriteFailsAndCloses(r) ==
  /\ UNCHANGED <<writes, pasted>>
  /\ proc[r] = "running"
  /\ sw[r].stage \in {"pending", "opened"}
  /\ sw' = [sw EXCEPT ![r] = [stage |-> "failed"]]
  /\ CloseWindow(r)
  /\ UNCHANGED <<srv, stdio, rt, envTimeout, variant, guiFound, now, tempDir, files,
                 proc, exitCode, killed, wrote>>
  /\ UNCHANGED hostVars

\* the write throws: the handler returns {success: false}, window stays open
SubmitWriteFails(r) ==
  /\ UNCHANGED <<writes, pasted>>
  /\ proc[r] = "running"
  /\ sw[r].stage \in {"pending", "opened"}
  /\ sw' = [sw EXCEPT ![r] = [stage |-> "failed"]]
  /\ gui' = [gui EXCEPT ![r] = IF @ = "submitting" THEN "open" ELSE @]
  /\ UNCHANGED <<srv, stdio, rt, envTimeout, variant, guiFound, now, tempDir, files, proc, exitCode, killed, cw, wrote>>
  /\ UNCHANGED hostVars

\* the close handler's write opens the file, truncating it
CancelWriteOpen(r) ==
  /\ UNCHANGED <<writes, pasted>>
  /\ proc[r] = "running"
  /\ cw[r].stage = "pending"
  /\ cw' = [cw EXCEPT ![r].stage = "opened"]
  /\ files' = [files EXCEPT ![path[r]] = Truncated]
  /\ wrote' = [wrote EXCEPT ![r] = Truncated]
  /\ UNCHANGED <<srv, stdio, rt, envTimeout, variant, guiFound, now, tempDir, proc, exitCode, killed, gui, sw>>
  /\ UNCHANGED hostVars

\* the close handler's write completes
CancelWriteDone(r) ==
  /\ proc[r] = "running"
  /\ cw[r].stage = "opened"
  /\ cw' = [cw EXCEPT ![r].stage = "done"]
  /\ files' = [files EXCEPT ![path[r]] = cw[r].data]
  /\ wrote' = [wrote EXCEPT ![r] = cw[r].data]
  /\ writes' = [writes EXCEPT ![r] = Append(@, cw[r].data)]
  /\ UNCHANGED pasted
  /\ UNCHANGED <<srv, stdio, rt, envTimeout, variant, guiFound, now, tempDir, proc, exitCode, killed, gui, sw>>
  /\ UNCHANGED hostVars

\* the user closes the window
UserClose(r) ==
  /\ UNCHANGED <<writes, pasted>>
  /\ proc[r] = "running"
  /\ gui[r] \in {"open", "submitting"}
  /\ CloseWindow(r)
  /\ UNCHANGED <<srv, stdio, rt, envTimeout, variant, guiFound, now, tempDir, files, proc, exitCode, killed, sw, wrote>>
  /\ UNCHANGED hostVars

\* the GUI's own setTimeout(timeout) closes the window (timeout revision)
GuiAutoClose(r) ==
  /\ UNCHANGED <<writes, pasted>>
  /\ variant = "timeout"
  /\ GuiTimeout(r) > 0
  /\ proc[r] = "running"
  /\ gui[r] \in {"open", "submitting"}
  /\ CloseWindow(r)
  /\ UNCHANGED <<srv, stdio, rt, envTimeout, variant, guiFound, now, tempDir, files, proc, exitCode, killed, sw, wrote>>
  /\ UNCHANGED hostVars

\* the process ends: code 0 after app.quit(), code 1 on app.exit(1), code
\* null when a signal (the host's SIGTERM, a crash) terminates it
ProcessExits(r, code) ==
  /\ UNCHANGED <<writes, pasted>>
  /\ proc[r] = "running"
  /\ \/ code = "0" /\ gui[r] = "quitting"
     \/ code = "1"
     \/ code = "null"
  /\ proc' = [proc EXCEPT ![r] = "exited"]
  /\ exitCode' = [exitCode EXCEPT ![r] = code]
  \* the window and the pending writes go with the process
  /\ gui' = [gui EXCEPT ![r] = "none"]
  /\ sw' = [sw EXCEPT ![r] = [stage |-> "none"]]
  /\ cw' = [cw EXCEPT ![r] = [stage |-> "none"]]
  /\ UNCHANGED <<srv, stdio, rt, envTimeout, variant, guiFound, now, tempDir, files, killed, wrote>>
  /\ UNCHANGED hostVars

ExitCodes == {"0", "1", "null"}

\* electronProcess.stdout/stderr "data": the launcher logs the output and,
\* in the revision without a timer, appends it to stdoutData/stderrData
StdoutData(r, output) ==
  /\ proc[r] \in {"running", "exited"}
  /\ stdio[r] = ""
  /\ stdio' = [stdio EXCEPT ![r] = output]
  /\ UNCHANGED <<srv, rt, envTimeout, variant, guiFound, now, tempDir, files, proc,
                 exitCode, killed>>
  /\ UNCHANGED hostVars
  /\ UNCHANGED guiVars

Outputs == {"GPU process isn't usable"}

\* ------------------------------------------- calls whose subprocess prints
\* overlapping calls within one millisecond, each subprocess printing or not
NextOutput ==
  \/ \E r \in Reqs, p \in Prompts : GetUserFeedback(r, p, 0)
  \/ \E r \in Reqs : EnsureTempDirFails(r)
  \/ \E r \in Reqs, s \in BOOLEAN : EnsureTempDirDone(r, s)
  \/ \E r \in Reqs, o \in Outputs : StdoutData(r, o)
  \/ \E r \in Reqs : OnExit(r)
  \/ \E r \in Reqs : OnError(r)
  \/ \E r \in Reqs : OnTimeout(r)
  \/ \E r \in Reqs : ReadFeedback(r)
  \/ \E r \in Reqs : cleanupFeedbackFile(r)
  \/ \E r \in Reqs : CleanupFails(r)
  \/ \E r \in Reqs, f \in Feedbacks : SubmitFeedback(r, f, <<>>)
  \/ \E r \in Reqs : SubmitWriteOpen(r)
  \/ \E r \in Reqs : SubmitWriteDone(r)
  \/ \E r \in Reqs : SubmitWriteFails(r)
  \/ \E r \in Reqs : CancelWriteOpen(r)
  \/ \E r \in Reqs : CancelWriteDone(r)
  \/ \E r \in Reqs : UserClose(r)
  \/ \E r \in Reqs : GuiAutoClose(r)
  \/ \E r \in Reqs, c \in ExitCodes : ProcessExits(r, c)

SpecOutput == Init /\ [][NextOutput]_vars

\* ------------------------------------------- a user who never acts
\* the timeout revision, with windows nobody submits in or closes
InitIdle == Init /\ variant = "timeout"

NextIdle ==
  \/ Tick
  \/ \E r \in Reqs, p \in Prompts : GetUserFeedback(r, p, 0)
  \/ \E r \in Reqs : EnsureTempDirFails(r)
  \/ \E r \in Reqs, s \in BOOLEAN : EnsureTempDirDone(r, s)
  \/ \E r \in Reqs : OnExit(r)
  \/ \E r \in Reqs : OnError(r)
  \/ \E r \in Reqs : OnTimeout(r)
  \/ \E r \in Reqs : ReadFeedback(r)
  \/ \E r \in Reqs : cleanupFeedbackFile(r)
  \/ \E r \in Reqs : GuiAutoClose(r)
  \/ \E r \in Reqs, c \in ExitCodes : ProcessExits(r, c)

SpecIdle == InitIdle /\ [][NextIdle]_vars

\* ---------------------------------- one call, with every input it can take
\* the server started with or without --timeout
InitSingle == Started({NoCliTimeout} \cup CliTimeouts, {NoTrip})

\* one call, its timeout given or not, and a renderer that may paste images
NextSingle ==
  \/ Tick
  \/ \E p \in Prompts, t \in Timeouts : GetUserFeedback(1, p, t)
  \/ EnsureTempDirFails(1)
  \/ \E s \in BOOLEAN : EnsureTempDirDone(1, s)
  \/ OnExit(1)
  \/ OnError(1)
  \/ OnTimeout(1)
  \/ ReadFeedback(1)
  \/ cleanupFeedbackFile(1)
  \/ CleanupFails(1)
  \/ \E f \in {""} \cup Feedbacks, imgs \in ImageLists : SubmitFeedback(1, f, imgs)
  \/ SubmitWriteOpen(1)
  \/ SubmitWriteDone(1)
  \/ SubmitWriteFails(1)
  \/ CancelWriteOpen(1)
  \/ CancelWriteDone(1)
  \/ UserClose(1)
  \/ GuiAutoClose(1)
  \/ \E c \in ExitCodes : ProcessExits(1, c)

SpecSingle == InitSingle /\ [][NextSingle]_vars

\* the event loop runs every callback that is due: the continuation of
\* ensureTempDir, the exit and error listeners, the launcher's timer, the
\* continuations of the read and of the cleanup
HostFairness ==
  /\ WF_vars(EnsureTempDirFails(1) \/ \E s \in BOOLEAN : EnsureTempDirDone(1, s))
  /\ WF_vars(OnExit(1))
  /\ WF_vars(OnError(1))
  /\ WF_vars(OnTimeout(1))
  /\ WF_vars(ReadFeedback(1))
  /\ WF_vars(cleanupFeedbackFile(1) \/ CleanupFails(1))

SpecSingleFair == SpecSingle /\ HostFairness

\* ----------------------------------------------------- mcp-server/index
Instances == 1..MaxInstances

\* startMCPServer up to its await: a duplicate start returns at once;
\* otherwise the flag is set, an McpServer is created, the tools are
\* registered and serverInstance.connect(transport) is started
startMCPServer ==
  /\ ~srv.exited
  /\ IF srv.isServerRunning
       THEN UNCHANGED srv
       ELSE /\ srv.created < MaxInstances
            /\ srv' = [srv EXCEPT !.isServerRunning = TRUE,
                                  !.created = @ + 1,
                                  !.serverInstance = srv.created + 1,
                                  !.link[srv.created + 1] = "connecting"]
  /\ UNCHANGED <<progVars, rt>>

\* connect resolves; transport.onclose is set
ConnectDone(i) ==
  /\ ~srv.exited
  /\ srv.link[i] = "connecting"
  /\ srv' = [srv EXCEPT !.link[i] = "connected"]
  /\ UNCHANGED <<progVars, rt>>

\* connect rejects: the catch resets the state and calls process.exit(1)
ConnectFails(i) ==
  /\ ~srv.exited
  /\ srv.link[i] = "connecting"
  /\ srv' = [srv EXCEPT !.isServerRunning = FALSE, !.serverInstance = 0,
                        !.exited = TRUE,
                        !.link = [j \in Instances |->
                                    IF srv.link[j] = "none" THEN "none" ELSE "closed"]]
  /\ UNCHANGED <<progVars, rt>>

\* stopMCPServer: resets the two variables, the instance stays connected
stopMCPServer ==
  /\ ~srv.exited
  /\ IF srv.isServerRunning /\ srv.serverInstance # 0
       THEN srv' = [srv EXCEPT !.isServerRunning = FALSE, !.serverInstance = 0]
       ELSE UNCHANGED srv
  /\ UNCHANGED <<progVars, rt>>

\* the transport of a connected instance closes: its onclose handler
\* resets the two variables
TransportClose(i) ==
  /\ ~srv.exited
  /\ srv.link[i] = "connected"
  /\ srv' = [srv EXCEPT !.link[i] = "closed",
                        !.isServerRunning = FALSE, !.serverInstance = 0]
  /\ UNCHANGED <<progVars, rt>>

NextServer ==
  \/ startMCPServer
  \/ \E i \in Instances : ConnectDone(i)
  \/ \E i \in Instances : ConnectFails(i)
  \/ stopMCPServer
  \/ \E i \in Instances : TransportClose(i)

\* the module as loaded, no feedback call under way
InitServer == Init /\ variant = "notimeout" /\ guiFound

SpecServer == InitServer /\ [][NextServer]_vars

\* ----------------------------------------------------- mcp-server/tools
\* registerUserFeedbackTool: the names registered under the two env flags
registerUserFeedbackTool(knowledgeDb, uiTester) ==
  {"get_user_feedback", "ask_user"}
  \cup (IF knowledgeDb THEN {"universal_knowledge_database"} ELSE {})
  \cup (IF uiTester THEN {"ui_tester"} ELSE {})

\* the note a tool adds when the result carries images
ImagesNote(result) ==
  IF "images" \in DOMAIN result /\ Len(result.images) > 0
    THEN <<[type |-> "text", text |-> <<"note", Len(result.images)>>]>>
    ELSE <<>>

\* the content the get_user_feedback handler returns for a result
getUserFeedbackTool(result) ==
  <<[type |-> "text", text |-> <<"json", result>>]>> \o ImagesNote(result)

\* an ask_user handler that leaves the images note out
askUserToolWithoutNote(result) ==
  <<[type |-> "text", text |-> <<"json", result>>]>>

\* the content the ask_user handler returns for a result
askUserTool(result) ==
  <<[type |-> "text", text |-> <<"json", result>>]>> \o ImagesNote(result)

\* ------------------------------------------- a trip through file-utils
\* the trips to make: a feedback text, a cancelled flag, a list of images
\* and a timestamp to write, and the env flags of the tool registration
Trips ==
  [pc : {"start"}, feedback : {""} \cup Feedbacks, cancelled : BOOLEAN,
   images : ImageLists, t : Times, knowledgeDb : BOOLEAN, uiTester : BOOLEAN,
   file : {NoFile}, out : {NoResp}, tool : {"none"}, content : {<<>>}]

\* writeFeedbackToFile(path, feedback, cancelled, images)
TripWrite ==
  /\ rt.pc = "start"
  /\ rt' = [rt EXCEPT !.pc = "written",
                      !.file = writeFeedbackToFile(rt.feedback, rt.cancelled,
                                                   rt.images, rt.t)]
  /\ UNCHANGED <<progVars, srv>>

\* readFeedbackFromFile(path)
TripRead ==
  /\ rt.pc = "written"
  /\ rt' = [rt EXCEPT !.pc = "read", !.out = readFeedbackFromFile(readJson(rt.file))]
  /\ UNCHANGED <<progVars, srv>>

\* a registered tool's handler turns the result into the tool content
TripTool(name) ==
  /\ rt.pc = "read"
  /\ name \in registerUserFeedbackTool(rt.knowledgeDb, rt.uiTester)
  /\ name \in {"get_user_feedback", "ask_user"}
  /\ rt' = [rt EXCEPT !.pc = "returned", !.tool = name,
                      !.content = IF name = "ask_user"
                                    THEN askUserTool(rt.out)
                                    ELSE getUserFeedbackTool(rt.out)]
  /\ UNCHANGED <<progVars, srv>>

ToolNames == {"get_user_feedback", "ask_user", "universal_knowledge_database",
              "ui_tester"}

InitTrip ==
  /\ Started({NoCliTimeout}, Trips)
  /\ variant = "notimeout"
  /\ guiFound

NextTrip ==
  \/ TripWrite
  \/ TripRead
  \/ \E name \in ToolNames : TripTool(name)

SpecTrip == InitTrip /\ [][NextTrip]_vars

Next ==
  \/ Tick
  \/ \E r \in Reqs, p \in Prompts : GetUserFeedback(r, p, 0)
  \/ \E r \in Reqs : EnsureTempDirFails(r)
  \/ \E r \in Reqs, s \in BOOLEAN : EnsureTempDirDone(r, s)
  \/ \E r \in Reqs : OnExit(r)
  \/ \E r \in Reqs : OnError(r)
  \/ \E r \in Reqs : OnTimeout(r)
  \/ \E r \in Reqs : ReadFeedback(r)
  \/ \E r \in Reqs : cleanupFeedbackFile(r)
  \/ \E r \in Reqs : CleanupFails(r)
  \/ \E r \in Reqs, f \in Feedbacks : SubmitFeedback(r, f, <<>>)
  \/ \E r \in Reqs : SubmitWriteOpen(r)
  \/ \E r \in Reqs : SubmitWriteDone(r)
  \/ \E r \in Reqs : SubmitWriteFails(r)
  \/ \E r \in Reqs : CancelWriteOpen(r)
  \/ \E r \in Reqs : CancelWriteDone(r)
  \/ \E r \in Reqs : UserClose(r)
  \/ \E r \in Reqs : GuiAutoClose(r)
  \/ \E r \in Reqs, c \in ExitCodes : ProcessExits(r, c)

\* ------------------------------------------------------------ properties
Returned(r) == pc[r] = "done"
Statuses == {"success", "error", "timeout", "cancelled"}
Mentions(message, code) == \E i \in 1..Len(message) : message[i] = code

\* C1: a call whose prompt is missing or empty ends at once with the error
\* response 'Prompt is required' and has no side effect: it generates no
\* path, spawns no process, arms no timer and reads nothing, and as long as
\* only such calls were made the scratch directory and all files are absent.
C1_EmptyPromptRejected ==
  /\ \A r \in Reqs :
       (pc[r] # "idle" /\ prompt[r] = "") =>
         /\ Returned(r)
         /\ resp[r] = [feedback |-> "", status |-> "error",
                       error |-> <<"Prompt is required">>]
         /\ path[r] = NoPath
         /\ proc[r] = "none"
         /\ timer[r] = "none"
         /\ reads[r] = 0
  /\ (\A r \in Reqs : pc[r] = "idle" \/ prompt[r] = "") =>
       (~tempDir /\ \A p \in Times : files[p] = NoFile)

C1_Witness ==
  \A r \in Reqs : Returned(r) /\ prompt[r] = "" /\ resp[r].status = "error"

\* C2: (as claimed) whenever a call with a non-empty prompt has returned and
\* its subprocess left a record {feedback: X, cancelled: false} as its last
\* write and exited with code 0, the response is success with feedback X.
\* Stated for the revision without a host timer, where no timer can race
\* the exit.
C2_SuccessCarriesFeedback ==
  \A r \in Reqs :
    (/\ variant = "notimeout"
     /\ Returned(r)
     /\ prompt[r] # ""
     /\ exitCode[r] = "0"
     /\ wrote[r].kind = "json"
     /\ wrote[r].cancelled = FALSE) =>
      (resp[r].status = "success" /\ resp[r].feedback = wrote[r].feedback)

\* C3: (as claimed) whenever a call has returned and its subprocess left a
\* record with cancelled = true as its last write and exited with code 0,
\* the response is cancelled with empty feedback.
C3_CancelledRecordGivesCancelled ==
  \A r \in Reqs :
    (/\ Returned(r)
     /\ exitCode[r] = "0"
     /\ wrote[r].kind = "json"
     /\ wrote[r].cancelled = TRUE) =>
      (resp[r].status = "cancelled" /\ resp[r].feedback = "")

\* C4: (as claimed) a subprocess that exited with a nonzero code or by a
\* signal makes the call return status error with the exit code in the
\* message, without any read of the handshake file.
C4_NonzeroExitIsError ==
  \A r \in Reqs :
    (Returned(r) /\ exitCode[r] \in {"1", "null"}) =>
      /\ resp[r].status = "error"
      /\ Mentions(resp[r].error, exitCode[r])
      /\ reads[r] = 0

\* C4 (amended): a subprocess that exited with a nonzero code or by a
\* signal makes the call return status error with the exit code in the
\* message when the launcher's timer had not fired before the exit was
\* handled, and status timeout when it had; the handshake file is read in
\* neither case.
C4_NonzeroExitIsErrorUnlessTimedOut ==
  \A r \in Reqs :
    (pc[r] \in {"cleanup", "done"} /\ exitCode[r] \in {"1", "null"}) =>
      /\ reads[r] = 0
      /\ IF timer[r] = "fired"
           THEN resp[r].status = "timeout"
           ELSE /\ resp[r].status = "error"
                /\ Mentions(resp[r].error, exitCode[r])

C4_Witness ==
  \E r \in Reqs :
    /\ Returned(r)
    /\ exitCode[r] = "1"
    /\ timer[r] # "fired"
    /\ wrote[r].kind = "json"
    /\ resp[r].status = "error"

\* C5: when the launcher's timer fires while the subprocess is still
\* running, the kill is sent, the launcher settles to timeout, the call
\* returns status timeout and the handshake file is never read.
C5_TimeoutKillsAndReturnsTimeout ==
  \A r \in Reqs :
    firedOn[r] = "running" =>
      /\ killed[r]
      /\ launch[r].status = "timeout"
      /\ pc[r] \in {"cleanup", "done"}
      /\ resp[r].status = "timeout"
      /\ reads[r] = 0

C5_Witness ==
  \E r \in Reqs :
    /\ firedOn[r] = "running"
    /\ Returned(r)
    /\ wrote[r].kind = "json"

\* C6: (as claimed) once a call that generated a handshake path has
\* returned, no file exists at that path.
C6_NoFileAfterReturn ==
  \A r \in Reqs :
    (Returned(r) /\ path[r] # NoPath) => files[path[r]] = NoFile

\* C7: (as claimed) any two calls have distinct handshake paths, and a
\* successful response carries the feedback its own subprocess wrote.
C7_DistinctPathsNoInterference ==
  /\ \A r1, r2 \in Reqs :
       (r1 # r2 /\ path[r1] # NoPath /\ path[r2] # NoPath) => path[r1] # path[r2]
  /\ \A r \in Reqs :
       (Returned(r) /\ resp[r].status = "success") =>
         (wrote[r].kind = "json" /\ resp[r].feedback = wrote[r].feedback)

\* C8: a determined response has status success exactly when the call read
\* the handshake file, the read found a complete record, and the record's
\* cancelled flag was false.
C8_SuccessIffRecordRead ==
  \A r \in Reqs :
    pc[r] \in {"cleanup", "done"} =>
      (resp[r].status = "success" <=>
         (/\ reads[r] = 1
          /\ lastRead[r].kind = "json"
          /\ lastRead[r].cancelled = FALSE))

C8_Witness ==
  \E r1, r2 \in Reqs :
    /\ Returned(r1) /\ resp[r1].status = "success"
    /\ Returned(r2) /\ resp[r2].status = "cancelled"

\* C9: every returned response has one of the four statuses and carries an
\* error field exactly when its status is not success.
C9_ErrorIffNotSuccess ==
  \A r \in Reqs :
    Returned(r) =>
      /\ resp[r].status \in Statuses
      /\ ("error" \in DOMAIN resp[r]) <=> (resp[r].status # "success")

C9_Witness ==
  \E r1, r2 \in Reqs :
    /\ Returned(r1) /\ resp[r1].status = "success"
    /\ Returned(r2) /\ resp[r2].status = "timeout"

\* C10: (as claimed) the promise returned by getUserFeedback never rejects.
C10_NeverRejects ==
  \A r \in Reqs : pc[r] # "rejected"

\* C11: the launcher promise settles to exactly one of success, error and
\* timeout, at the first of the exit, error and timer events; once settled
\* it never changes, and a response once determined never changes either.
C11_LauncherSettlesOnce ==
  [][\A r \in Reqs :
       /\ launch'[r].status \in {"pending", "success", "error", "timeout"}
       /\ launch[r] # Pending => launch'[r] = launch[r]
       /\ resp[r] # NoResp => resp'[r] = resp[r]]_vars

C11_Witness ==
  \E r \in Reqs :
    /\ launch[r].status = "timeout"
    /\ proc[r] = "gone"
    /\ exitCode[r] = "0"
    /\ Returned(r)

\* C12: (as claimed) in the revision without a host timer, a GUI process
\* that exits with code 0 has left a complete record at its path, and the
\* host's read after that exit finds a complete record.
C12_RecordCompleteAtExit ==
  \A r \in Reqs :
    (variant = "notimeout" /\ exitCode[r] = "0") =>
      /\ wrote[r].kind = "json"
      /\ reads[r] = 1 => lastRead[r].kind = "json"

\* C17: (as claimed) when the GUI entry point cannot be located no process
\* is spawned and the failure is not reported as an error or timeout status.
C17_MissingGuiIsNotAStatus ==
  \A r \in Reqs :
    (GuiPathThrows /\ path[r] # NoPath) =>
      /\ proc[r] = "none"
      /\ resp[r].status \notin {"error", "timeout"}

\* C17 (amended): when the GUI entry point cannot be located the request
\* stops before any spawn, timer or read, and the error raised by
\* getElectronGuiPath is caught and returned as status error with a
\* message naming the failed resolution.
C17_MissingGuiIsErrorBeforeSpawn ==
  \A r \in Reqs :
    (~guiFound /\ path[r] # NoPath) =>
      /\ proc[r] = "none"
      /\ timer[r] = "none"
      /\ reads[r] = 0
      /\ pc[r] \in {"cleanup", "done"}
      /\ resp[r].status = "error"
      /\ Mentions(resp[r].error, "Failed to resolve Electron GUI path: ")

C17_Witness ==
  \E r \in Reqs : ~guiFound /\ path[r] # NoPath /\ Returned(r)

\* C19: in the revision with a host timer, once the exit or error event of
\* the subprocess has been handled the timer is no longer armed; when it
\* was cleared no kill was sent and the outcome is not timeout.
C19_TimerClearedAfterExit ==
  \A r \in Reqs :
    proc[r] = "gone" =>
      /\ timer[r] # "armed"
      /\ timer[r] = "cleared" =>
           /\ ~killed[r]
           /\ launch[r].status \in {"success", "error"}
           /\ resp[r].status # "timeout"

C19_Witness ==
  \E r \in Reqs :
    /\ variant = "timeout"
    /\ proc[r] = "gone"
    /\ timer[r] = "cleared"
    /\ Returned(r)

\* C20: when a call that spawned a subprocess has returned, the subprocess
\* has exited or has been sent a kill.
C20_NoDanglingSubprocess ==
  \A r \in Reqs :
    (Returned(r) /\ proc[r] = "running") => killed[r]

C20_Witness ==
  \E r \in Reqs : Returned(r) /\ proc[r] = "running" /\ killed[r]

\* C13: (as claimed) once the subprocess has written a submitted record,
\* it writes no cancelled record after it and leaves the submitted record
\* in place, and a call that returns after a clean exit returns success
\* with the submitted feedback.
C13_SubmitIsNeverCancelled ==
  \A r \in Reqs :
    \A i \in DOMAIN writes[r] :
      ~writes[r][i].cancelled =>
        /\ \A j \in DOMAIN writes[r] : j > i => ~writes[r][j].cancelled
        /\ wrote[r] = writes[r][i]
        /\ (Returned(r) /\ launch[r].status = "success") =>
             (resp[r].status = "success" /\ resp[r].feedback = writes[r][i].feedback)

\* C14: writing feedback f with a non-empty list of images L and
\* cancelled false, then reading the file back, gives success with
\* feedback f and images equal to L, element for element.
C14_ImagesRoundTrip ==
  (rt.pc \in {"read", "returned"} /\ ~rt.cancelled /\ Len(rt.images) > 0) =>
    /\ rt.out.status = "success"
    /\ rt.out.feedback = rt.feedback
    /\ "images" \in DOMAIN rt.out
    /\ rt.out.images = rt.images

C14_Witness ==
  /\ rt.pc = "read"
  /\ ~rt.cancelled
  /\ Len(rt.images) = MaxImages
  /\ rt.images[1] # rt.images[2]
  /\ rt.out.images = rt.images

\* C16: get_user_feedback and ask_user are registered whatever the env
\* flags are, and for one result both handlers return the same content.
C16_AskUserIsGetUserFeedback ==
  rt.pc # "off" =>
    /\ {"get_user_feedback", "ask_user"} \subseteq
         registerUserFeedbackTool(rt.knowledgeDb, rt.uiTester)
    /\ rt.pc = "returned" =>
         /\ rt.content = getUserFeedbackTool(rt.out)
         /\ rt.content = askUserTool(rt.out)

C16_Witness ==
  /\ rt.pc = "returned"
  /\ rt.tool = "ask_user"
  /\ ~rt.knowledgeDb /\ ~rt.uiTester
  /\ Len(rt.content) = 2

\* C15: (as claimed) when the user submits with pasted images, every
\* submitted record the subprocess writes holds exactly those images in
\* order, and so does a success response.
C15_PastedImagesArrive ==
  \A r \in Reqs :
    Len(pasted[r]) > 0 =>
      /\ \A i \in DOMAIN writes[r] :
           ~writes[r][i].cancelled =>
             ("images" \in DOMAIN writes[r][i] /\ writes[r][i].images = pasted[r])
      /\ (Returned(r) /\ resp[r].status = "success") =>
           ("images" \in DOMAIN resp[r] /\ resp[r].images = pasted[r])

\* C18: (as claimed) when the server was started with --timeout and a call
\* carries no timeout of its own, the deadline given to the launcher's
\* timer is the value of --timeout.
C18_CliTimeoutIsDefaultDeadline ==
  \A r \in Reqs :
    (envTimeout # NoCliTimeout /\ ptimeout[r] = 0 /\ timer[r] # "none") =>
      deadline[r] = envTimeout

\* C21: (as claimed) a call that passed validation and has ended has read
\* the handshake file once if the subprocess exited with code 0 and not at
\* all otherwise, and has attempted the deletion exactly once.
C21_ReadOnceDeleteOnce ==
  \A r \in Reqs :
    (pc[r] \in {"done", "rejected"} /\ ~PromptMissing(prompt[r])) =>
      /\ Len(cleaned[r]) = 1
      /\ reads[r] = IF exitCode[r] = "0" THEN 1 ELSE 0

\* C22: (as claimed) a subprocess that has exited with code 0 has written
\* its handshake file exactly once.
C22_OneWriteBeforeCleanExit ==
  \A r \in Reqs : exitCode[r] = "0" => Len(writes[r]) = 1

\* C23: the step in which the deletion of the handshake file fails ends
\* the call with the response it had before the cleanup: the call returns,
\* it does not throw, and status, feedback, error and images are unchanged.
C23_CleanupFailureIsSwallowed ==
  [][\A r \in Reqs :
       (cleaned'[r] # cleaned[r] /\ cleaned'[r][Len(cleaned'[r])] = "failed") =>
         /\ pc'[r] = "done"
         /\ resp[r].status \in Statuses
         /\ resp'[r] = resp[r]]_vars

C23_Witness ==
  \E r \in Reqs :
    /\ Returned(r)
    /\ cleaned[r] = <<"failed">>
    /\ resp[r].status = "success"
    /\ files[path[r]] # NoFile

\* the events a call has seen of its subprocess and of its timer
Seen(r) ==
  <<PromptMissing(prompt[r]), path[r] = NoPath, proc[r], exitCode[r], firedOn[r]>>

\* C24: two returned calls that saw the same exit, error and timer events
\* took the same decision to read the handshake file, and when they found
\* the same file content they return the same status and the same
\* feedback, whatever their subprocesses printed.
C24_OutputDecidesNothing ==
  \A r1, r2 \in Reqs :
    (Returned(r1) /\ Returned(r2) /\ Seen(r1) = Seen(r2)) =>
      /\ reads[r1] = reads[r2]
      /\ lastRead[r1] = lastRead[r2] =>
           /\ resp[r1].status = resp[r2].status
           /\ resp[r1].feedback = resp[r2].feedback

C24_Witness ==
  \E r1, r2 \in Reqs :
    /\ Returned(r1) /\ Returned(r2)
    /\ Seen(r1) = Seen(r2)
    /\ stdio[r1] # stdio[r2]
    /\ resp[r1].status = "error"
    /\ resp[r1].error # resp[r2].error

\* C25: in the revision without a host timer no timer is ever set, no kill
\* is ever sent, no result or response is timeout, and a call that spawned
\* a subprocess has returned only after its exit or error event was handled.
C25_NoTimerNeverKills ==
  variant = "notimeout" =>
    \A r \in Reqs :
      /\ timer[r] = "none"
      /\ ~killed[r]
      /\ launch[r].status # "timeout"
      /\ resp[r].status # "timeout"
      /\ (Returned(r) /\ proc[r] # "none") => proc[r] = "gone"

C25_Witness ==
  \E r \in Reqs :
    /\ variant = "notimeout"
    /\ Returned(r)
    /\ proc[r] = "gone"
    /\ exitCode[r] = "0"

\* C26: (as claimed) with a user who neither submits nor closes, a call
\* whose subprocess exited cleanly, that is through the GUI's own
\* auto-close timer, returns timeout.
C26_AutoCloseIsTimeout ==
  \A r \in Reqs :
    (Returned(r) /\ exitCode[r] = "0") => resp[r].status = "timeout"

\* C27: (as claimed) at most one MCP server instance is connected, or
\* connecting, to the stdio transport at a time.
C27_OneServerInstance ==
  Cardinality({i \in Instances : srv.link[i] \in {"connecting", "connected"}}) <= 1

\* C28: the step in which the submit handler returns {success: true} has
\* the submitted record at the handshake path and closes the window; the
\* step in which it returns {success: false} closes no window, starts no
\* write, touches no file and leaves the process running.
C28_SubmitReplyFollowsWrite ==
  [][\A r \in Reqs :
       /\ (sw[r].stage # "done" /\ sw'[r].stage = "done") =>
            /\ files'[path[r]] = sw'[r].data
            /\ writes'[r] = Append(writes[r], sw'[r].data)
            /\ gui'[r] = "quitting"
       /\ (sw[r].stage # "failed" /\ sw'[r].stage = "failed") =>
            /\ gui[r] # "quitting" => gui'[r] = "open"
            /\ cw'[r] = cw[r]
            /\ files' = files
            /\ proc'[r] = "running"]_vars

C28_Witness ==
  \E r \in Reqs :
    /\ sw[r].stage = "failed"
    /\ gui[r] = "open"
    /\ proc[r] = "running"
    /\ files[path[r]] = Truncated

\* C29: (as claimed) in the revision with a host timer, a call that has
\* passed validation eventually returns a response.
C29_EventuallyReturns ==
  \A r \in Reqs :
    (variant = "timeout" /\ pc[r] = "ensure") ~> (pc[r] = "done")

Spec == Init /\ [][Next]_vars
====
